---- MODULE Spec2Model ----
(***************************************************************************)
(* Model of the peer-session lifecycle (RTCSender.py), of the detection    *)
(* button handler that drives it (MainWindow.openOrCloseDetection), of the *)
(* two single-slot hand-off queues (MainWindow.put_latest), of the         *)
(* detection overlay (MainWindow.onFrameArrived), of the camera with its   *)
(* capture threads (Camera.py, MainWindow.cameraListCurrentChanged), of    *)
(* the video track that feeds the peer (CameraTrack.recv) and of the       *)
(* OpenGL view (RenderWidget.py).                                          *)
(*                                                                         *)
(* RTCSender runs on one asyncio event loop (qasync, main.py): open(),     *)
(* close() and every stretch of _run between two suspending awaits are     *)
(* atomic with respect to each other.  The capture thread is a real        *)
(* thread: it interleaves with the loop at the granularity of the          *)
(* (mutex-protected) queue.Queue operations.                               *)
(***************************************************************************)
EXTENDS Integers, Sequences, FiniteSets, TLC

\* ---------------------------------------------------------------- bounds
MaxClicks == 3       \* clicks on the detection button in one behaviour
MaxDirectOpens == 1  \* open() calls of a caller that uses the sender directly
MaxAnswers == 1    \* messages the remote peer publishes on the answer topic
MaxFrames == 5     \* frames the capture thread produces in one behaviour
MaxDets == 2       \* entries of the "detections" list of one message
MaxSelects == 3    \* selections in the camera list in one behaviour
MaxTextures == 6   \* names for the QOpenGLTexture objects that exist at a time

\* A click opens at most one session, so MaxClicks names are enough.
MaxSessions == MaxClicks
Sessions == 1..MaxSessions
Frames == 1..MaxFrames
\* A selection creates at most one VideoCapture and one capture thread.
Handles == 1..MaxSelects
Threads == 1..MaxSelects
QueueSize == 1     \* Queue(1): the capacity of camToRtcQueue and rtcToCamQueue
None == 0          \* Python's None for self.pc / a missing frame

\* No message: the value lastMsg has while nothing was forwarded.
NoMsg == [enc |-> "none", form |-> "none", dets |-> <<>>]

\* The payloads the answer topic can carry, by what _run does with them.
AnswerKinds == {"valid", "empty", "badjson", "nokey", "rejected"}

\* MainWindow.STATUS_* texts and the two other texts mStatusText can show.
STATUS_STOPPED == "Detection: Stopped"
STATUS_STARTING == "Detection: Starting..."
STATUS_CONNECTING == "Detection: Connecting (ICE checking)..."
STATUS_CONNECTED == "Detection: Connected"
STATUS_FAILED == "Detection: Failed"
STATUS_CLOSED == "Detection: Closed"
STATUS_INITIAL == "running"
STATUS_NOCAMERA == "camera not opened"

VARIABLES
    \* RTCSender fields
    pc,            \* self.pc: None or the peer connection object (named by its session)
    running,       \* self._running
    \* the _run tasks, one per open()
    nTasks,        \* tasks created so far
    task,          \* task[t]: where _run of session t is suspended
    answerStr,     \* answer_json_str of session t ("none": Python None)
    \* the peer connection objects (object k is created by session k)
    pcState,       \* connectionState, "none" before the object exists
    closeCalls,    \* times pc.close() was invoked on object k
    closeTasks,    \* pc.close() tasks created by close() that have not run yet
    \* the broker and the remote peer
    offers,        \* offers published on the offer topic
    answersSent,   \* answers the peer published
    inbox,         \* first message delivered to session t's subscription
    \* MainWindow
    rtcSenderIsRunning, mStatusText, btnText, camOpened,
    \* observations of the run (written, never read, by the program's actions)
    endReason, applied, monitored, published,
    closedEver, closedAt, openWhileActive,
    closeStreak, schedByLast, lastClick, nClicks,
    \* the outbound hand-off queue and its two users
    camToRtcQueue, prodPc, prodItem, nextFrame, handed, putResult,
    putIters,      \* put_nowait attempts of the current put_latest call
    cbReturn,      \* what the last readCameraCallBack returned
    cbCalls,       \* readCameraCallBack calls so far, modulo 2
    signalled,     \* frames of signalFrame delivered to onFrameArrived
    \* the inbound hand-off queue and the frame slot of the window
    rtcToCamQueue, \* self.rtcToCamQueue
    lastMsg,       \* the last message on_message forwarded since the last get
    putsSinceGet,  \* messages forwarded since the last get (0, 1, "2 or more")
    rects,         \* bounding rectangles drawn by the last onFrameArrived
    caught,        \* the except clause the last onFrameArrived ended in
    texture,       \* the setTextureData calls of the last onFrameArrived
    overlays,      \* frames drawn with a rectangle since the last on_message
    \* CameraTrack.recv
    recvPc,        \* "idle", "poll", "sleep", "done"
    polls,         \* read_func calls of the current recv
    recvFrame,     \* the frame the last recv made its VideoFrame from
    \* RenderWidget
    m_shaderProgram, m_width, m_height, m_scaleX, m_scaleY,
    m_textureY, m_textureU, m_textureV, m_currentFormat, m_yuvPlanes,
    winW, winH,    \* self.width(), self.height()
    glCurrent,     \* makeCurrent() was called and doneCurrent() was not
    texState,      \* texture object i: "none", "live", "destroyed"
    destroys,      \* destroy() calls on texture object i
    glLog,         \* the destroy / create calls of the last renderer call
    raised,        \* the exception the last renderer call ended with
    lastCall,      \* the renderer method that ran last
    painted,       \* what the last paintGL drew
    \* the capture threads
    readFrameThreadIsRunning,  \* the Event: set = TRUE
    readFrameThread,           \* None or the Thread object (named by a number)
    thr,           \* thr[i]: where thread i is: "none", "check", "read", "dead"
    readFailed,    \* readFailed[i]: camera.read() raised in thread i
    nThreads,      \* threads started so far
    \* Camera and the VideoCapture objects
    cam,           \* self.camera.cam: None or the VideoCapture object
    hState,        \* object h: "none", "open", "released", "failed" (never opened)
    releases,      \* times release() was called on object h
    nHandles,      \* VideoCapture objects created so far
    \* the main thread inside cameraListCurrentChanged / closeEvent
    mainPc,        \* "idle", "join", "afterStop", "closed"
    pending,       \* what the handler goes on with after the stop
    nSelects, stopCalls, joinTimedOut

rtcVars == <<pc, running, nTasks, task, answerStr, pcState,
             closeCalls, closeTasks, offers, answersSent, inbox>>
uiVars == <<rtcSenderIsRunning, mStatusText, btnText, camOpened>>
obsVars == <<endReason, applied, monitored, published, closedEver,
             closedAt, openWhileActive>>
callVars == <<closeStreak, schedByLast, lastClick, nClicks>>
chanVars == <<camToRtcQueue, prodPc, prodItem, nextFrame, handed, putResult,
              putIters, cbReturn, cbCalls, signalled>>
rtcVars_but_task == <<pc, running, nTasks, answerStr, pcState,
                      closeCalls, closeTasks, offers, answersSent, inbox>>
ovlVars == <<rtcToCamQueue, lastMsg, putsSinceGet, rects, caught, texture,
             overlays>>
trkVars == <<recvPc, polls, recvFrame>>
rndFields == <<m_width, m_height, m_scaleX, m_scaleY, m_textureY, m_textureU,
               m_textureV, m_currentFormat, m_yuvPlanes>>
rndVars == <<rndFields, m_shaderProgram, winW, winH, glCurrent, texState,
             destroys, glLog, raised, lastCall, painted>>
thrVars == <<readFrameThreadIsRunning, readFrameThread, thr, readFailed, nThreads>>
devVars == <<cam, hState, releases, nHandles>>
mainVars == <<mainPc, pending, nSelects, stopCalls, joinTimedOut>>
camVars == <<thrVars, devVars, mainVars>>
vars == <<rtcVars, uiVars, obsVars, callVars, chanVars, ovlVars, trkVars,
          rndVars, camVars>>

Active(t) == task[t] \notin {"none", "done"}

\* The places of a task at which a close() call is recorded in closedAt.
Observed == {"scheduled", "wait", "monitor"}

\* ------------------------------------------------------------ initial state
InitRTC ==
    /\ pc = None /\ running = FALSE /\ nTasks = 0
    /\ task = [t \in Sessions |-> "none"]
    /\ answerStr = [t \in Sessions |-> "none"]
    /\ pcState = [t \in Sessions |-> "none"]
    /\ closeCalls = [t \in Sessions |-> 0]
    /\ closeTasks = [t \in Sessions |-> 0]
    /\ offers = 0 /\ answersSent = 0
    /\ inbox = [t \in Sessions |-> "none"]
    /\ endReason = [t \in Sessions |-> "none"]
    /\ applied = [t \in Sessions |-> FALSE]
    /\ monitored = [t \in Sessions |-> FALSE]
    /\ published = [t \in Sessions |-> 0]
    /\ closedEver = FALSE
    /\ closedAt = [t \in Sessions |-> {}]
    /\ openWhileActive = FALSE
    /\ closeStreak = 0 /\ schedByLast = 0 /\ lastClick = "none" /\ nClicks = 0

InitUI ==
    /\ rtcSenderIsRunning = FALSE
    /\ mStatusText = STATUS_INITIAL
    /\ btnText = "Open Detection"

InitChan ==
    /\ camToRtcQueue = <<>> /\ prodPc = "idle" /\ prodItem = None
    /\ nextFrame = 1 /\ handed = {} /\ putResult = [f \in Frames |-> "none"]
    /\ putIters = 0 /\ cbReturn = None /\ cbCalls = 0 /\ signalled = 0

\* The camera side at start: no device, no capture thread.
InitCamClosed ==
    /\ readFrameThreadIsRunning = FALSE /\ readFrameThread = None
    /\ thr = [i \in Threads |-> "none"]
    /\ readFailed = [i \in Threads |-> FALSE]
    /\ nThreads = 0
    /\ cam = None
    /\ hState = [h \in Handles |-> "none"]
    /\ releases = [h \in Handles |-> 0]
    /\ nHandles = 0
    /\ mainPc = "idle" /\ pending = "none"
    /\ nSelects = 0 /\ stopCalls = 0 /\ joinTimedOut = FALSE

\* The camera side after one device was selected and opened.
InitCamOpened ==
    /\ readFrameThreadIsRunning = TRUE /\ readFrameThread = 1
    /\ thr = [i \in Threads |-> IF i = 1 THEN "check" ELSE "none"]
    /\ readFailed = [i \in Threads |-> FALSE]
    /\ nThreads = 1
    /\ cam = 1
    /\ hState = [h \in Handles |-> IF h = 1 THEN "open" ELSE "none"]
    /\ releases = [h \in Handles |-> 0]
    /\ nHandles = 1
    /\ mainPc = "idle" /\ pending = "none"
    /\ nSelects = 1 /\ stopCalls = 0 /\ joinTimedOut = FALSE

InitOvl ==
    /\ rtcToCamQueue = <<>> /\ lastMsg = NoMsg /\ putsSinceGet = 0
    /\ rects = <<>> /\ caught = "none" /\ texture = <<>>
    /\ overlays = 0

\* CameraTrack.recv has not been called.
NoFrame == [kind |-> "none", frame |-> None, shape |-> <<>>]
InitTrack ==
    /\ recvPc = "idle" /\ polls = 0 /\ recvFrame = NoFrame

\* ------------------------------------------------------- the OpenGL view
\* The members of PixelFormat, a value that is none of them, and the value
\* m_currentFormat has while nothing is shown (Python's None).
YUV420P == "YUV420P"
RGB24 == "RGB24"
BGR24 == "BGR24"
Formats == {YUV420P, RGB24, BGR24, "other"}
NoFormat == "None"

\* The names of the QOpenGLTexture objects.
TexIds == 1..MaxTextures

\* The <<width, height>> pairs setTextureData is called with, and the
\* widths and heights of the widget.
Sizes == {<<0, 2>>, <<2, 0>>, <<2, 2>>, <<4, 2>>, <<2, 4>>}
WinSizes == {2, 4}

\* The scale factors are fractions <<numerator, denominator>> in lowest
\* terms; the sizes are integers, so every quotient the view forms is one.
RECURSIVE GCD(_, _)
GCD(a, b) == IF b = 0 THEN a ELSE GCD(b, a % b)
Frac(n, d) == <<n \div GCD(n, d), d \div GCD(n, d)>>
FracDiv(a, b) == Frac(a[1] * b[2], a[2] * b[1])
FracGt(a, b) == a[1] * b[2] > b[1] * a[2]
One == <<1, 1>>

\* The buffers setTextureData is called with: an ndarray of a given shape,
\* or a list of planes given by their shapes.
NdArray(shape) == [kind |-> "ndarray", shape |-> shape, planes |-> <<>>]
PlaneList(planes) == [kind |-> "list", shape |-> <<>>, planes |-> planes]
Buffers(w, h) ==
    { NdArray(<<h, w, 3>>), NdArray(<<h, w, 4>>), NdArray(<<h, w>>),
      PlaneList(<<<<h, w>>, <<h \div 2, w \div 2>>, <<h \div 2, w \div 2>>>>),
      PlaneList(<<<<h, w>>, <<h, w>>, <<h, w>>>>),
      PlaneList(<<<<h, w>>, <<h \div 2, w \div 2>>>>) }

\* What the view shows.  NotPainted: paintGL has not run since the view was
\* constructed or since update() asked for a repaint.  Otherwise the colour
\* buffer was cleared, and the quad was drawn with the textures bound, or
\* binding failed on a field that is None.
NotPainted ==
    [cleared |-> FALSE, drawn |-> FALSE, isYUV |-> FALSE, error |-> FALSE]
Black ==
    [cleared |-> TRUE, drawn |-> FALSE, isYUV |-> FALSE, error |-> FALSE]

\* RenderWidget.__init__; the widget has some positive size.
InitRender ==
    /\ m_shaderProgram = FALSE
    /\ m_width = 0 /\ m_height = 0 /\ m_scaleX = One /\ m_scaleY = One
    /\ m_textureY = None /\ m_textureU = None /\ m_textureV = None
    /\ m_currentFormat = NoFormat /\ m_yuvPlanes = FALSE
    /\ winW = 4 /\ winH = 2
    /\ glCurrent = FALSE
    /\ texState = [i \in TexIds |-> "none"]
    /\ destroys = [i \in TexIds |-> 0]
    /\ glLog = <<>> /\ raised = "none" /\ lastCall = "none"
    /\ painted = NotPainted

\* updateAspectRatio with the two quotients exchanged.
updateAspectRatio_swapped(width, height, ww, wh) ==
    IF width <= 0 \/ height <= 0 THEN [x |-> One, y |-> One]
    ELSE LET windowAspect == Frac(ww, wh)
             videoAspect == Frac(width, height)
         IN  IF FracGt(windowAspect, videoAspect)
             THEN [x |-> FracDiv(windowAspect, videoAspect), y |-> One]
             ELSE [x |-> One, y |-> FracDiv(videoAspect, windowAspect)]

\* RenderWidget.updateAspectRatio: the scale factors for a source of
\* width x height in a widget of ww x wh.
updateAspectRatio(width, height, ww, wh) ==
    IF width <= 0 \/ height <= 0 THEN [x |-> One, y |-> One]
    ELSE LET windowAspect == Frac(ww, wh)
             videoAspect == Frac(width, height)
         IN  IF FracGt(windowAspect, videoAspect)
             THEN [x |-> FracDiv(videoAspect, windowAspect), y |-> One]
             ELSE [x |-> One, y |-> FracDiv(windowAspect, videoAspect)]

\* The texture objects the three fields name.
IsTexture(t) == t # None
HeldSeq == SelectSeq(<<m_textureY, m_textureU, m_textureV>>, IsTexture)
Held == {HeldSeq[k] : k \in 1..Len(HeldSeq)}

\* The loop that leaves the textures of the upload before alone.
DestroyTextures_none ==
    [state |-> texState, destroys |-> destroys, log |-> <<>>]

\* "for tex in (Y, U, V): if tex: tex.destroy()": the objects, the counts of
\* destroy() calls and the calls in their order.  An object that was
\* destroyed earlier and that no field names any more is gone.
DestroyTextures ==
    [state |-> [i \in TexIds |->
                  IF i \in Held THEN "destroyed"
                  ELSE IF texState[i] = "live" THEN "live" ELSE "none"],
     destroys |-> [i \in TexIds |->
                     IF i \in Held
                     THEN destroys[i] + Cardinality({k \in 1..Len(HeldSeq) : HeldSeq[k] = i})
                     ELSE IF texState[i] = "live" THEN destroys[i] ELSE 0],
     log |-> [k \in 1..Len(HeldSeq) |-> <<"destroy", HeldSeq[k]>>]]

\* n new QOpenGLTexture objects, given the objects that exist: they take the
\* smallest names that no existing object has.
RECURSIVE Smallest(_, _)
Smallest(S, n) ==
    IF n = 0 THEN <<>>
    ELSE LET m == CHOOSE x \in S : \A y \in S : x <= y
         IN  <<m>> \o Smallest(S \ {m}, n - 1)
Fresh(state, n) == Smallest({i \in TexIds : state[i] # "live"}, n)

\* The checks of lines 118 and 132-136 on the buffer.
PackedFits(buffer) ==
    buffer.kind = "ndarray" /\ Len(buffer.shape) = 3 /\ buffer.shape[3] = 3
PlanesFit(buffer, width, height) ==
    /\ buffer.kind = "list" /\ Len(buffer.planes) = 3
    /\ buffer.planes[1] = <<height, width>>
    /\ buffer.planes[2] = <<height \div 2, width \div 2>>
    /\ buffer.planes[3] = <<height \div 2, width \div 2>>

\* The textures an accepted upload creates: one for a packed format, three
\* for the planar one; none when ValueError is raised.
TexturesOf(buffer, width, height, fmt) ==
    IF fmt \in {RGB24, BGR24} THEN (IF PackedFits(buffer) THEN 1 ELSE 0)
    ELSE IF fmt = YUV420P THEN (IF PlanesFit(buffer, width, height) THEN 3 ELSE 0)
    ELSE 0

\* The planar branch that creates the Y texture only.
UploadYUV_onlyY(new) == [Y |-> new[1], U |-> None, V |-> None]

\* Lines 139-158: the three textures of the planar format.
UploadYUV(new) == [Y |-> new[1], U |-> new[2], V |-> new[3]]

\* Lines 117-163: the fields m_textureY, m_textureU, m_textureV after the
\* branch on the format, new being the objects created.
Upload(new) ==
    IF Len(new) = 3 THEN UploadYUV(new)
    ELSE IF Len(new) = 1 THEN [Y |-> new[1], U |-> None, V |-> None]
    ELSE [Y |-> None, U |-> None, V |-> None]

\* RenderWidget.setTextureData.  Nothing happens for a width or height that
\* is not positive.  Otherwise the context is made current, the size and the
\* format are stored, the scale is recomputed, the textures held are
\* destroyed and forgotten, and only then the buffer is checked: ValueError
\* leaves the method at that point, before doneCurrent() and update().
setTextureData(buffer, width, height, fmt) ==
    /\ lastCall' = "setTextureData"
    /\ IF width <= 0 \/ height <= 0
       THEN /\ glLog' = <<>> /\ raised' = "none"
            /\ UNCHANGED <<rndFields, glCurrent, texState, destroys, painted>>
       ELSE \E d \in {DestroyTextures} :
            \E new \in {Fresh(d.state, TexturesOf(buffer, width, height, fmt))} :
            \E made \in {{new[k] : k \in 1..Len(new)}} :
                /\ m_width' = width /\ m_height' = height
                /\ m_currentFormat' = fmt
                /\ m_scaleX' = updateAspectRatio(width, height, winW, winH).x
                /\ m_scaleY' = updateAspectRatio(width, height, winW, winH).y
                /\ m_textureY' = Upload(new).Y
                /\ m_textureU' = Upload(new).U
                /\ m_textureV' = Upload(new).V
                /\ m_yuvPlanes' = (Len(new) = 3)
                /\ texState' = [i \in TexIds |->
                                  IF i \in made THEN "live" ELSE d.state[i]]
                /\ destroys' = [i \in TexIds |->
                                  IF i \in made THEN 0 ELSE d.destroys[i]]
                /\ glLog' = d.log \o [k \in 1..Len(new) |-> <<"create", new[k]>>]
                /\ raised' = IF Len(new) = 0 THEN "ValueError" ELSE "none"
                /\ glCurrent' = (Len(new) = 0)
                /\ painted' = IF Len(new) = 0 THEN painted ELSE NotPainted
    /\ UNCHANGED <<m_shaderProgram, winW, winH>>

\* clear that keeps the size and the format of the last frame.
clear_keepsSize ==
    /\ lastCall' = "clear"
    /\ m_textureY' = None /\ m_textureU' = None /\ m_textureV' = None
    /\ m_yuvPlanes' = FALSE
    /\ m_scaleX' = One /\ m_scaleY' = One
    /\ texState' = DestroyTextures.state
    /\ destroys' = DestroyTextures.destroys
    /\ glLog' = DestroyTextures.log
    /\ raised' = "none" /\ glCurrent' = FALSE
    /\ painted' = NotPainted
    /\ UNCHANGED <<m_width, m_height, m_currentFormat>>
    /\ UNCHANGED <<m_shaderProgram, winW, winH>>

\* RenderWidget.clear.
clear ==
    /\ lastCall' = "clear"
    /\ m_textureY' = None /\ m_textureU' = None /\ m_textureV' = None
    /\ m_yuvPlanes' = FALSE
    /\ m_width' = 0 /\ m_height' = 0
    /\ m_currentFormat' = NoFormat
    /\ m_scaleX' = One /\ m_scaleY' = One
    /\ texState' = DestroyTextures.state
    /\ destroys' = DestroyTextures.destroys
    /\ glLog' = DestroyTextures.log
    /\ raised' = "none" /\ glCurrent' = FALSE
    /\ painted' = NotPainted
    /\ UNCHANGED <<m_shaderProgram, winW, winH>>

\* RenderWidget.initializeGL: the shader program, the vertex array and the
\* vertex buffer are created.
initializeGL ==
    /\ ~m_shaderProgram
    /\ m_shaderProgram' = TRUE
    /\ lastCall' = "initializeGL"
    /\ glLog' = <<>> /\ raised' = "none"
    /\ UNCHANGED <<rndFields, winW, winH, glCurrent, texState, destroys,
                   painted>>

\* RenderWidget.resizeGL: the widget has its new size w x h; Qt paints it
\* anew afterwards.
resizeGL(w, h) ==
    /\ winW' = w /\ winH' = h
    /\ m_scaleX' = updateAspectRatio(m_width, m_height, w, h).x
    /\ m_scaleY' = updateAspectRatio(m_width, m_height, w, h).y
    /\ lastCall' = "resizeGL"
    /\ glLog' = <<>> /\ raised' = "none"
    /\ painted' = NotPainted
    /\ UNCHANGED <<m_width, m_height, m_textureY, m_textureU, m_textureV,
                   m_currentFormat, m_yuvPlanes>>
    /\ UNCHANGED <<m_shaderProgram, glCurrent, texState, destroys>>

\* RenderWidget.paintGL: the colour buffer is cleared; without a shader
\* program or a Y texture that is all; otherwise the Y texture is bound,
\* for YUV420P the U and V textures too (a field that is None has no bind():
\* AttributeError), and the quad is drawn.
paintGL ==
    LET is_yuv == m_currentFormat = YUV420P
        missing == is_yuv /\ (m_textureU = None \/ m_textureV = None)
    IN  /\ painted' =
             IF ~m_shaderProgram \/ m_textureY = None THEN Black
             ELSE [cleared |-> TRUE, drawn |-> ~missing, isYUV |-> is_yuv,
                   error |-> missing]
        /\ raised' = IF m_shaderProgram /\ m_textureY # None /\ missing
                     THEN "AttributeError" ELSE "none"
        /\ lastCall' = "paintGL"
        /\ glLog' = <<>>
        /\ UNCHANGED <<rndFields, m_shaderProgram, winW, winH, glCurrent,
                       texState, destroys>>

\* A call of the view, or a callback Qt makes on it.
OnView(A) ==
    A /\ UNCHANGED <<rtcVars, uiVars, obsVars, callVars, chanVars, ovlVars,
                     trkVars, camVars>>

\* The view on its own: any caller of setTextureData and clear, and Qt,
\* which initialises the view before it resizes or paints it.
InitRenderSpec ==
    /\ InitRTC /\ InitUI /\ InitChan /\ InitOvl /\ InitTrack
    /\ camOpened = FALSE /\ InitCamClosed
    /\ InitRender

NextRender ==
    \/ \E size \in Sizes, fmt \in Formats :
         \E buffer \in Buffers(size[1], size[2]) :
            OnView(setTextureData(buffer, size[1], size[2], fmt))
    \/ OnView(clear)
    \/ OnView(initializeGL)
    \/ \E w \in WinSizes, h \in WinSizes : m_shaderProgram /\ OnView(resizeGL(w, h))
    \/ m_shaderProgram /\ OnView(paintGL)

SpecRender == InitRenderSpec /\ [][NextRender]_vars

\* ------------------------------------------------------------- RTCSender
\* RunFinally with a finally block that forgets the peer connection.
RunFinally_noClose(t, reason) ==
    /\ running' = FALSE
    /\ endReason' = [endReason EXCEPT ![t] = reason]
    /\ task' = [task EXCEPT ![t] = "done"]
    /\ UNCHANGED <<closeCalls, pcState, pc>>

\* The "except Exception" and "finally" blocks of _run, entered by session t
\* for `reason`.  They run without suspension up to "await self.pc.close()",
\* which is invoked on whatever object self.pc names at that moment.
RunFinally(t, reason) ==
    /\ running' = FALSE
    /\ endReason' = [endReason EXCEPT ![t] = reason]
    /\ IF pc # None
       THEN /\ closeCalls' = [closeCalls EXCEPT ![pc] = @ + 1]
            /\ pcState' = [pcState EXCEPT ![pc] = "closed"]
            /\ task' = [task EXCEPT ![t] = "closing"]
       ELSE /\ task' = [task EXCEPT ![t] = "done"]
            /\ UNCHANGED <<closeCalls, pcState>>
    /\ UNCHANGED pc

\* RTCSender.open: creates the _run task, whatever the state of the sender.
open ==
    /\ nTasks < MaxSessions
    /\ nTasks' = nTasks + 1
    /\ task' = [task EXCEPT ![nTasks + 1] = "scheduled"]
    /\ openWhileActive' = (openWhileActive \/ \E t \in Sessions : Active(t))
    /\ UNCHANGED <<pc, running, answerStr, pcState, closeCalls,
                   closeTasks, offers, answersSent, inbox>>
    /\ UNCHANGED <<endReason, applied, monitored, published, closedEver,
                   closedAt>>

\* close without its last line, "self.pc = None".
close_keepsPc ==
    /\ running' = FALSE
    /\ IF pc # None
       THEN /\ closeTasks' = [closeTasks EXCEPT ![pc] = @ + 1]
            /\ closeCalls' = [closeCalls EXCEPT ![pc] = @ + 1]
       ELSE /\ UNCHANGED <<closeTasks, closeCalls>>
    /\ UNCHANGED pc
    /\ closedEver' = TRUE
    /\ closedAt' = [t \in Sessions |-> closedAt[t] \cup ({task[t]} \cap Observed)]
    /\ UNCHANGED <<nTasks, task, answerStr, pcState, offers,
                   answersSent, inbox>>
    /\ UNCHANGED <<endReason, applied, monitored, published, openWhileActive>>

\* RTCSender.close: clears the flag and, when self.pc is set, creates a task
\* for pc.close() and forgets the object.  It does not touch the _run task.
close ==
    /\ running' = FALSE
    /\ IF pc # None
       THEN /\ closeTasks' = [closeTasks EXCEPT ![pc] = @ + 1]
            /\ closeCalls' = [closeCalls EXCEPT ![pc] = @ + 1]
       ELSE /\ UNCHANGED <<closeTasks, closeCalls>>
    /\ pc' = None
    /\ closedEver' = TRUE
    /\ closedAt' = [t \in Sessions |-> closedAt[t] \cup ({task[t]} \cap Observed)]
    /\ UNCHANGED <<nTasks, task, answerStr, pcState, offers,
                   answersSent, inbox>>
    /\ UNCHANGED <<endReason, applied, monitored, published, openWhileActive>>

\* _run, first stretch: "self._running = True", _create_peer_connection
\* (self.pc = pc), addTrack, the data channel, createOffer and the call of
\* setLocalDescription.  The task then suspends for the ICE gathering, for
\* the connection to the broker and for the publication of the offer: no
\* field of the sender changes between these awaits, so "publish" stands for
\* all of them.
RunStart(t) ==
    /\ task[t] = "scheduled"
    /\ running' = TRUE
    /\ pc' = t
    /\ pcState' = [pcState EXCEPT ![t] = "new"]
    /\ task' = [task EXCEPT ![t] = "publish"]
    /\ UNCHANGED <<nTasks, answerStr, closeCalls, closeTasks,
                   offers, answersSent, inbox>>
    /\ UNCHANGED obsVars

\* _run: the offer is published (qos 2), the first client is left and the
\* second one is entered; or the broker cannot be reached and aiomqtt raises.
RunPublish(t) ==
    /\ task[t] = "publish"
    /\ \/ /\ offers' = offers + 1
          /\ published' = [published EXCEPT ![t] = @ + 1]
          /\ task' = [task EXCEPT ![t] = "subscribe"]
          /\ UNCHANGED <<pc, running, pcState, closeCalls, endReason>>
       \/ /\ RunFinally(t, "error")
          /\ UNCHANGED <<offers, published>>
    /\ UNCHANGED <<nTasks, answerStr, closeTasks, answersSent, inbox>>
    /\ UNCHANGED <<applied, monitored, closedEver, closedAt, openWhileActive>>

\* _run: the subscription to the answer topic is acknowledged and the task
\* starts waiting for a message under asyncio.timeout(25); or aiomqtt raises.
RunSubscribe(t) ==
    /\ task[t] = "subscribe"
    /\ \/ /\ task' = [task EXCEPT ![t] = "wait"]
          /\ UNCHANGED <<pc, running, pcState, closeCalls, endReason>>
       \/ RunFinally(t, "error")
    /\ UNCHANGED <<nTasks, answerStr, closeTasks, offers, answersSent, inbox>>
    /\ UNCHANGED <<applied, monitored, published, closedEver, closedAt, openWhileActive>>

\* _run: the first message of the subscription is taken, the loop is left by
\* "break" and the client is left (disconnecting suspends).
RunReceive(t) ==
    /\ task[t] = "wait"
    /\ inbox[t] # "none"
    /\ answerStr' = [answerStr EXCEPT ![t] = inbox[t]]
    /\ inbox' = [inbox EXCEPT ![t] = "none"]
    /\ task' = [task EXCEPT ![t] = "disconnect"]
    /\ UNCHANGED <<pc, running, nTasks, pcState, closeCalls,
                   closeTasks, offers, answersSent>>
    /\ UNCHANGED obsVars

\* _run: no message within 25 seconds; TimeoutError is caught, "return" leaves
\* the client (disconnecting suspends) on its way to the finally block.
RunTimeout(t) ==
    /\ task[t] = "wait"
    /\ inbox[t] = "none"
    /\ task' = [task EXCEPT ![t] = "unwind"]
    /\ endReason' = [endReason EXCEPT ![t] = "timeout"]
    /\ UNCHANGED rtcVars_but_task
    /\ UNCHANGED <<applied, monitored, published, closedEver, closedAt, openWhileActive>>

\* _run: the client is left after the timeout; the finally block runs.
RunUnwind(t) ==
    /\ task[t] = "unwind"
    /\ RunFinally(t, "timeout")
    /\ UNCHANGED <<nTasks, answerStr, closeTasks, offers, answersSent, inbox>>
    /\ UNCHANGED <<applied, monitored, published, closedEver, closedAt, openWhileActive>>

\* What lines 174-181 of _run do with the received payload, up to the call of
\* setRemoteDescription: "return" on an empty payload, an exception from
\* json.loads (invalid JSON) or from answer_data["sdp"] / ["type"] (missing
\* key), an exception from setRemoteDescription (the description is rejected,
\* or the object is closed: aiortc refuses an answer in signaling state
\* "closed"), otherwise the call suspends.
AnswerOutcome(payload, state) ==
    CASE payload = "empty" -> "empty"
      [] payload \in {"badjson", "nokey"} -> "malformed"
      [] payload = "rejected" -> "rejected"
      [] payload = "valid" /\ state = "closed" -> "rejected"
      [] OTHER -> "apply"

\* _run: the second client is left; the answer is checked and handed to
\* setRemoteDescription.
RunDisconnected(t) ==
    /\ task[t] = "disconnect"
    /\ IF AnswerOutcome(answerStr[t], pcState[t]) = "apply"
       THEN /\ task' = [task EXCEPT ![t] = "setRemote"]
            /\ UNCHANGED <<pc, running, pcState, closeCalls, endReason>>
       ELSE RunFinally(t, AnswerOutcome(answerStr[t], pcState[t]))
    /\ UNCHANGED <<nTasks, answerStr, closeTasks, offers, answersSent, inbox>>
    /\ UNCHANGED <<applied, monitored, published, closedEver, closedAt, openWhileActive>>

\* The condition of the monitoring loop, line 185.
KeepMonitoring(t) == running /\ pcState[t] \notin {"closed", "failed"}

\* Why the loop of line 185 is left: the peer reported the failure, the object
\* was closed, or the flag was cleared.
LoopExitReason(t) ==
    IF pcState[t] = "failed" THEN "peerFailed"
    ELSE IF pcState[t] = "closed" THEN "pcClosed"
    ELSE "stopped"

\* _run: the remote description is set; the loop condition is evaluated for
\* the first time and the task sleeps 1.5 s, or falls through to finally.
RunRemoteSet(t) ==
    /\ task[t] = "setRemote"
    /\ applied' = [applied EXCEPT ![t] = TRUE]
    /\ IF KeepMonitoring(t)
       THEN /\ task' = [task EXCEPT ![t] = "monitor"]
            /\ monitored' = [monitored EXCEPT ![t] = TRUE]
            /\ UNCHANGED <<pc, running, pcState, closeCalls, endReason>>
       ELSE /\ RunFinally(t, LoopExitReason(t))
            /\ UNCHANGED monitored
    /\ UNCHANGED <<nTasks, answerStr, closeTasks, offers, answersSent, inbox>>
    /\ UNCHANGED <<published, closedEver, closedAt,
                   openWhileActive>>

\* _run: the sleep ends and the loop condition is evaluated again.
RunMonitor(t) ==
    /\ task[t] = "monitor"
    /\ IF KeepMonitoring(t)
       THEN UNCHANGED <<pc, running, task, pcState, closeCalls,
                        endReason>>
       ELSE RunFinally(t, LoopExitReason(t))
    /\ UNCHANGED <<nTasks, answerStr, closeTasks, offers, answersSent, inbox>>
    /\ UNCHANGED <<applied, monitored, published, closedEver, closedAt, openWhileActive>>

\* _run: "await self.pc.close()" returns; "self.pc = None" and the task ends.
RunClosed(t) ==
    /\ task[t] = "closing"
    /\ pc' = None
    /\ task' = [task EXCEPT ![t] = "done"]
    /\ UNCHANGED <<running, nTasks, answerStr, pcState, closeCalls,
                   closeTasks, offers, answersSent, inbox>>
    /\ UNCHANGED obsVars

\* A pc.close() task created by close() runs.
PcCloseTask(k) ==
    /\ closeTasks[k] > 0
    /\ closeTasks' = [closeTasks EXCEPT ![k] = @ - 1]
    /\ pcState' = [pcState EXCEPT ![k] = "closed"]
    /\ UNCHANGED <<pc, running, nTasks, task, answerStr, closeCalls,
                   offers, answersSent, inbox>>
    /\ UNCHANGED obsVars

\* The remote peer publishes a message on the answer topic; the broker
\* delivers it to the sessions subscribed at that moment (client.messages
\* keeps it until the task reads it; only the first one is ever read).
PeerAnswer(kind) ==
    /\ offers > 0
    /\ answersSent < MaxAnswers
    /\ answersSent' = answersSent + 1
    /\ inbox' = [t \in Sessions |->
                   IF task[t] = "wait" /\ inbox[t] = "none" THEN kind ELSE inbox[t]]
    /\ UNCHANGED <<pc, running, nTasks, task, answerStr, pcState,
                   closeCalls, closeTasks, offers>>
    /\ UNCHANGED obsVars

\* The connection state the peer connection reports once the answer is
\* applied (on_connectionstatechange only logs it).
PcEvent(k, s) ==
    /\ applied[k]
    /\ pcState[k] \in {"new", "connected"}
    /\ pcState[k] # s
    /\ pcState' = [pcState EXCEPT ![k] = s]
    /\ UNCHANGED <<pc, running, nTasks, task, answerStr, closeCalls,
                   closeTasks, offers, answersSent, inbox>>
    /\ UNCHANGED obsVars

\* ------------------------------------------------------------ MainWindow
\* MainWindow.openOrCloseDetection, the slot of the detection button.  The
\* "except" branch of lines 369-376 needs open() to raise, which create_task
\* does not do on the running loop.
openOrCloseDetection ==
    IF rtcSenderIsRunning
    THEN /\ close
         /\ rtcSenderIsRunning' = FALSE
         /\ btnText' = "Open Detection"
         /\ mStatusText' = STATUS_STOPPED
         /\ lastClick' = "close"
         /\ schedByLast' = 0
         /\ UNCHANGED camOpened
    ELSE IF ~camOpened
    THEN /\ mStatusText' = STATUS_NOCAMERA
         /\ lastClick' = "nocamera"
         /\ schedByLast' = 0
         /\ UNCHANGED <<rtcVars, obsVars, rtcSenderIsRunning, btnText, camOpened>>
    ELSE /\ open
         /\ rtcSenderIsRunning' = TRUE
         /\ btnText' = "Detection running"
         /\ mStatusText' = STATUS_CONNECTING
         /\ lastClick' = "open"
         /\ schedByLast' = 0
         /\ UNCHANGED camOpened

\* ------------------------------------------------------- specifications
\* A step A of the event loop or of the network: it is no call of the
\* sender's owner, and it leaves the window alone.
OnLoop(A) ==
    /\ A
    /\ closeStreak' = 0 /\ schedByLast' = 0
    /\ UNCHANGED <<uiVars, lastClick, nClicks, chanVars, ovlVars, trkVars, rndVars, camVars>>

\* The sender driven by the main window.
InitUISpec ==
    /\ InitRTC /\ InitUI /\ InitChan /\ InitOvl
    /\ InitTrack /\ InitRender
    /\ camOpened \in BOOLEAN
    /\ IF camOpened THEN InitCamOpened ELSE InitCamClosed

Click ==
    /\ nClicks < MaxClicks
    /\ openOrCloseDetection
    /\ nClicks' = nClicks + 1
    /\ closeStreak' = 0
    /\ UNCHANGED <<chanVars, ovlVars, trkVars, rndVars, camVars>>

NextUI ==
    \/ Click
    \/ \E t \in Sessions : OnLoop(RunStart(t))
    \/ \E t \in Sessions : OnLoop(RunPublish(t))
    \/ \E t \in Sessions : OnLoop(RunSubscribe(t))
    \/ \E t \in Sessions : OnLoop(RunReceive(t))
    \/ \E t \in Sessions : OnLoop(RunTimeout(t))
    \/ \E t \in Sessions : OnLoop(RunUnwind(t))
    \/ \E t \in Sessions : OnLoop(RunDisconnected(t))
    \/ \E t \in Sessions : OnLoop(RunRemoteSet(t))
    \/ \E t \in Sessions : OnLoop(RunMonitor(t))
    \/ \E t \in Sessions : OnLoop(RunClosed(t))
    \/ \E k \in Sessions : OnLoop(PcCloseTask(k))
    \/ \E kind \in AnswerKinds : OnLoop(PeerAnswer(kind))
    \/ \E k \in Sessions, s \in {"connected", "failed"} : OnLoop(PcEvent(k, s))

SpecUI == InitUISpec /\ [][NextUI]_vars

\* The stretches of session t's task, and the event loop's fairness: a task
\* that can run is run, a timeout that is due fires, and pc.close() returns.
RunSteps(t) ==
    \/ OnLoop(RunStart(t))
    \/ OnLoop(RunPublish(t))
    \/ OnLoop(RunSubscribe(t))
    \/ OnLoop(RunReceive(t))
    \/ OnLoop(RunTimeout(t))
    \/ OnLoop(RunUnwind(t))
    \/ OnLoop(RunDisconnected(t))
    \/ OnLoop(RunRemoteSet(t))
    \/ OnLoop(RunMonitor(t))
    \/ OnLoop(RunClosed(t))

FairSpecUI ==
    /\ SpecUI
    /\ \A t \in Sessions : WF_vars(RunSteps(t))
    /\ \A k \in Sessions : WF_vars(OnLoop(PcCloseTask(k)))

\* The sender driven directly through its two public methods.
InitRTCSpec ==
    /\ InitRTC /\ InitUI /\ InitChan /\ InitOvl
    /\ InitTrack /\ InitRender
    /\ camOpened = TRUE /\ InitCamOpened

CallOpen ==
    /\ nTasks < MaxDirectOpens
    /\ open
    /\ closeStreak' = 0 /\ schedByLast' = 0
    /\ UNCHANGED <<uiVars, lastClick, nClicks, chanVars, ovlVars, trkVars, rndVars, camVars>>

CallClose ==
    /\ close
    /\ closeStreak' = IF closeStreak < 2 THEN closeStreak + 1 ELSE 2
    /\ schedByLast' = IF closeTasks' # closeTasks THEN 1 ELSE 0
    /\ UNCHANGED <<uiVars, lastClick, nClicks, chanVars, ovlVars, trkVars, rndVars, camVars>>

NextRTC ==
    \/ CallOpen
    \/ CallClose
    \/ \E t \in Sessions : OnLoop(RunStart(t))
    \/ \E t \in Sessions : OnLoop(RunPublish(t))
    \/ \E t \in Sessions : OnLoop(RunSubscribe(t))
    \/ \E t \in Sessions : OnLoop(RunReceive(t))
    \/ \E t \in Sessions : OnLoop(RunTimeout(t))
    \/ \E t \in Sessions : OnLoop(RunUnwind(t))
    \/ \E t \in Sessions : OnLoop(RunDisconnected(t))
    \/ \E t \in Sessions : OnLoop(RunRemoteSet(t))
    \/ \E t \in Sessions : OnLoop(RunMonitor(t))
    \/ \E t \in Sessions : OnLoop(RunClosed(t))
    \/ \E k \in Sessions : OnLoop(PcCloseTask(k))
    \/ \E kind \in AnswerKinds : OnLoop(PeerAnswer(kind))
    \/ \E k \in Sessions, s \in {"connected", "failed"} : OnLoop(PcEvent(k, s))

SpecRTC == InitRTCSpec /\ [][NextRTC]_vars

\* ------------------------------------------------- the hand-off queue
\* queue.Queue operations; each one is atomic (the queue's own mutex).
Full(q) == Len(q) >= QueueSize
Empty(q) == Len(q) = 0

\* Where frame f is when put_latest returns, given the queue and the frames
\* the consumer took so far.
Whereabouts(f, q, taken) ==
    IF \E i \in 1..Len(q) : q[i] = f THEN "held"
    ELSE IF f \in taken THEN "handed"
    ELSE "lost"

\* readFrameThreadFunction, lines 199-207: a frame is read and put_latest is
\* called with it (signalFrame.emit does not touch the queue).
CaptureFrame ==
    /\ prodPc = "idle"
    /\ nextFrame <= MaxFrames
    /\ prodItem' = nextFrame
    /\ nextFrame' = nextFrame + 1
    /\ prodPc' = "put"
    /\ putIters' = 0
    /\ UNCHANGED <<camToRtcQueue, handed, putResult, cbReturn, cbCalls, signalled>>

\* put_latest, lines 381-384: queue.put_nowait(item); on success "break"
\* ends the call, on Full the except branch is entered.
PutNowait ==
    /\ prodPc = "put"
    /\ IF Full(camToRtcQueue)
       THEN /\ prodPc' = "drain"
            /\ UNCHANGED <<camToRtcQueue, prodItem, putResult>>
       ELSE /\ camToRtcQueue' = Append(camToRtcQueue, prodItem)
            /\ putResult' = [putResult EXCEPT ![prodItem] =
                               Whereabouts(prodItem, camToRtcQueue', handed)]
            /\ prodPc' = "idle"
            /\ prodItem' = None
    /\ putIters' = IF putIters < 3 THEN putIters + 1 ELSE 3
    /\ UNCHANGED <<nextFrame, handed, cbReturn, cbCalls, signalled>>

\* The except branch of put_latest without its get_nowait.
DrainOld_keepsOld ==
    /\ prodPc = "drain"
    /\ prodPc' = "put"
    /\ UNCHANGED <<camToRtcQueue, prodItem, putResult>>
    /\ UNCHANGED <<nextFrame, handed, putIters, cbReturn, cbCalls, signalled>>

\* put_latest, lines 385-388: queue.get_nowait() drops the old value and the
\* loop goes round; on Empty "break" ends the call.
DrainOld ==
    /\ prodPc = "drain"
    /\ IF Empty(camToRtcQueue)
       THEN /\ putResult' = [putResult EXCEPT ![prodItem] =
                               Whereabouts(prodItem, camToRtcQueue, handed)]
            /\ prodPc' = "idle"
            /\ prodItem' = None
            /\ UNCHANGED camToRtcQueue
       ELSE /\ camToRtcQueue' = Tail(camToRtcQueue)
            /\ prodPc' = "put"
            /\ UNCHANGED <<prodItem, putResult>>
    /\ UNCHANGED <<nextFrame, handed, putIters, cbReturn, cbCalls, signalled>>

\* readCameraCallBack that answers an empty queue with the frame it
\* returned before.
readCameraCallBack_stale ==
    /\ IF camOpened /\ ~Empty(camToRtcQueue)
       THEN /\ handed' = handed \cup {Head(camToRtcQueue)}
            /\ cbReturn' = Head(camToRtcQueue)
            /\ camToRtcQueue' = Tail(camToRtcQueue)
       ELSE UNCHANGED <<camToRtcQueue, handed, cbReturn>>
    /\ cbCalls' = 1 - cbCalls
    /\ UNCHANGED <<prodPc, prodItem, nextFrame, putResult, putIters, signalled>>

\* readCameraCallBack, the frame accessor CameraTrack.recv polls on the
\* event loop: None when the camera is not opened or the queue is empty.
readCameraCallBack ==
    /\ IF camOpened /\ ~Empty(camToRtcQueue)
       THEN /\ handed' = handed \cup {Head(camToRtcQueue)}
            /\ cbReturn' = Head(camToRtcQueue)
            /\ camToRtcQueue' = Tail(camToRtcQueue)
       ELSE /\ cbReturn' = None
            /\ UNCHANGED <<camToRtcQueue, handed>>
    /\ cbCalls' = 1 - cbCalls
    /\ UNCHANGED <<prodPc, prodItem, nextFrame, putResult, putIters, signalled>>



\* ------------------------------------------- the detection overlay
\* BGR colours of lines 253 and 256.
RED == <<0, 0, 255>>
GREEN == <<0, 255, 0>>

\* The characters of the class names of the model, and str.lower on them.
Chars == {"c", "a", "v", "i", "t", "y", "x", "C", "A", "V", "I", "T", "Y",
          "u", "n", "k", "o", "w"}
LowerChar(ch) ==
    CASE ch = "C" -> "c" [] ch = "A" -> "a" [] ch = "V" -> "v"
      [] ch = "I" -> "i" [] ch = "T" -> "t" [] ch = "Y" -> "y"
      [] OTHER -> ch
Lower(s) == [k \in 1..Len(s) |-> LowerChar(s[k])]

\* Python's "sub in s" on strings.
Contains(sub, s) ==
    \E k \in 0..(Len(s) - Len(sub)) : SubSeq(s, k + 1, k + Len(sub)) = sub

CAVITY == <<"c", "a", "v", "i", "t", "y">>
UNKNOWN == <<"u", "n", "k", "n", "o", "w", "n">>

\* JSON values of a bbox item and int() on them: "x" is a string that is no
\* number (ValueError), the others convert.
Numeric(c) == c \in {"1", "2", "3"}
IntOf(c) == CASE c = "1" -> 1 [] c = "2" -> 2 [] c = "3" -> 3

\* The values "bbox" can have: a list of four items, of three items, a list
\* with an item that is no number, and a value that is no list.
GoodBox == [list |-> TRUE, items |-> <<"1", "2", "3", "3">>]
ShortBox == [list |-> TRUE, items |-> <<"1", "2", "3">>]
TextBox == [list |-> TRUE, items |-> <<"1", "x", "3", "3">>]
NoBox == [list |-> FALSE, items |-> <<>>]

\* The values "class_name" can have: a string, a missing key, or a value
\* that is no string (a number, null).
ClsStr(chars) == [kind |-> "str", chars |-> chars]
ClsMissing == [kind |-> "missing", chars |-> <<>>]
ClsOther == [kind |-> "other", chars |-> <<>>]

\* The entries a "detections" list is made of.  obj: the entry is a JSON
\* object; conf: "confidence" is a number, is missing, or is a string.
Det(obj, bbox, cls, conf) ==
    [obj |-> obj, bbox |-> bbox, cls |-> cls, conf |-> conf]
Entries ==
    { Det(TRUE, GoodBox, ClsStr(<<"x", "C", "A", "V", "I", "T", "Y">>), "num"),
      Det(TRUE, GoodBox, ClsStr(<<"c", "a", "v", "i", "t">>), "num"),
      Det(TRUE, GoodBox, ClsMissing, "missing"),
      Det(TRUE, ShortBox, ClsStr(CAVITY), "num"),
      Det(TRUE, TextBox, ClsStr(CAVITY), "num"),
      Det(TRUE, NoBox, ClsMissing, "num"),
      Det(FALSE, NoBox, ClsMissing, "missing"),
      Det(TRUE, GoodBox, ClsOther, "num"),
      Det(TRUE, GoodBox, ClsStr(CAVITY), "str") }
Batches == UNION {[1..n -> Entries] : n \in 0..MaxDets}

\* The messages the data channel can deliver, by what lines 224-233 do with
\* them: an empty str / bytes, bytes that are no UTF-8, a text that is no
\* JSON, JSON that is no object, an object without "detections", an object
\* whose "detections" is no list (a number, null), an object with a list.
Forms == {"blank", "badutf8", "badjson", "notdict", "nodets", "detsnotlist",
          "batch"}
Payloads ==
    {m \in [enc : {"str", "bytes"}, form : Forms, dets : Batches] :
        /\ m.form # "batch" => m.dets = <<>>
        /\ m.form = "badutf8" => m.enc = "bytes"}

\* put_latest that gives up on Full instead of replacing the old value.
put_latest_keepOld(queue, item) ==
    IF ~Full(queue) THEN Append(queue, item) ELSE queue

\* put_latest run without interruption (producer and consumer of
\* rtcToCamQueue are both callbacks of the main thread): put_nowait; on Full
\* the old value is taken out and the loop goes round; on Empty it breaks.
RECURSIVE put_latest(_, _)
put_latest(queue, item) ==
    IF ~Full(queue) THEN Append(queue, item)
    ELSE IF Empty(queue) THEN queue
    ELSE put_latest(Tail(queue), item)

\* on_message of the data channel "pos": readRTCFunc(message), that is
\* put_latest(self.rtcToCamQueue, message).
on_message(msg) ==
    /\ rtcToCamQueue' = put_latest(rtcToCamQueue, msg)
    /\ lastMsg' = msg
    /\ putsSinceGet' = IF putsSinceGet < 2 THEN putsSinceGet + 1 ELSE 2
    /\ overlays' = 0
    /\ UNCHANGED <<rects, caught, texture>>
    /\ UNCHANGED rndVars

\* frame.shape of frame f: rows, columns, channels.  Rows and columns differ.
Shape(f) == <<f + 1, 2 * f + 2, 3>>

\* Lines 308-315: display_frame goes to the view as BGR24, the width and the
\* height taken from its shape.
ShowFrame(f) ==
    setTextureData(NdArray(Shape(f)), Shape(f)[2], Shape(f)[1], BGR24)

\* The frames drawn with a rectangle since the last message, one more when
\* rs has a rectangle.
Overlaid(rs) ==
    IF rs = <<>> THEN overlays ELSE IF overlays < 2 THEN overlays + 1 ELSE 2

\* The rectangle cv2.rectangle draws for entry i (lines 243 and 260-266).
BoundingRect(i, items, color) ==
    [i |-> i, p1 |-> <<IntOf(items[1]), IntOf(items[2])>>,
     p2 |-> <<IntOf(items[3]), IntOf(items[4])>>, color |-> color]

\* The loop of lines 235-297 from entry i on, acc being the bounding
\* rectangles drawn so far.  det.get on an entry that is no object, .lower()
\* on a class name that is no string and the format of a confidence that is
\* no number raise: the loop is left for the "except Exception" clause.
RECURSIVE DrawFrom(_, _, _)
DrawFrom(dets, i, acc) ==
    IF i > Len(dets) THEN [rects |-> acc, caught |-> "none"]
    ELSE LET det == dets[i]
             class_name == IF det.cls.kind = "missing" THEN UNKNOWN
                           ELSE det.cls.chars
             color == IF Contains(CAVITY, Lower(class_name)) THEN RED ELSE GREEN
             drawn == Append(acc, BoundingRect(i, det.bbox.items, color))
         IN  IF ~det.obj THEN [rects |-> acc, caught |-> "Exception"]
             ELSE IF ~det.bbox.list \/ Len(det.bbox.items) # 4
                  THEN DrawFrom(dets, i + 1, acc)
             ELSE IF \E k \in 1..4 : ~Numeric(det.bbox.items[k])
                  THEN DrawFrom(dets, i + 1, acc)
             ELSE IF det.cls.kind = "other"
                  THEN [rects |-> acc, caught |-> "Exception"]
             ELSE IF det.conf = "str"
                  THEN [rects |-> drawn, caught |-> "Exception"]
             ELSE DrawFrom(dets, i + 1, drawn)

\* Lines 224-297 on the value taken from the queue.
ProcessPayload(posStr) ==
    CASE posStr.form = "blank" -> [rects |-> <<>>, caught |-> "none"]
      [] posStr.form = "badutf8" -> [rects |-> <<>>, caught |-> "Exception"]
      [] posStr.form = "badjson" -> [rects |-> <<>>, caught |-> "JSONDecodeError"]
      [] posStr.form = "notdict" -> [rects |-> <<>>, caught |-> "Exception"]
      [] posStr.form = "nodets" -> DrawFrom(<<>>, 1, <<>>)
      [] posStr.form = "detsnotlist" -> [rects |-> <<>>, caught |-> "Exception"]
      [] posStr.form = "batch" -> DrawFrom(posStr.dets, 1, <<>>)

\* onFrameArrived without its last clause, "except Exception": the error
\* leaves the slot before setTextureData is reached.
onFrameArrived_noCatchAll(f) ==
    /\ IF Empty(rtcToCamQueue)
       THEN /\ rects' = <<>> /\ caught' = "Empty"
            /\ texture' = <<[frame |-> f, w |-> Shape(f)[2], h |-> Shape(f)[1]]>>
            /\ ShowFrame(f)
            /\ UNCHANGED <<rtcToCamQueue, lastMsg, putsSinceGet>>
       ELSE /\ rects' = ProcessPayload(Head(rtcToCamQueue)).rects
            /\ rtcToCamQueue' = Tail(rtcToCamQueue)
            /\ lastMsg' = NoMsg /\ putsSinceGet' = 0
            /\ IF ProcessPayload(Head(rtcToCamQueue)).caught = "Exception"
               THEN /\ caught' = "escaped" /\ texture' = <<>>
                    /\ UNCHANGED rndVars
               ELSE /\ caught' = ProcessPayload(Head(rtcToCamQueue)).caught
                    /\ texture' = <<[frame |-> f, w |-> Shape(f)[2],
                                     h |-> Shape(f)[1]]>>
                    /\ ShowFrame(f)
    /\ overlays' = Overlaid(rects')

\* onFrameArrived that reads the payload and leaves it in the queue.
onFrameArrived_keepsPayload(f) ==
    /\ IF Empty(rtcToCamQueue)
       THEN /\ rects' = <<>> /\ caught' = "Empty"
       ELSE /\ rects' = ProcessPayload(Head(rtcToCamQueue)).rects
            /\ caught' = ProcessPayload(Head(rtcToCamQueue)).caught
    /\ UNCHANGED <<rtcToCamQueue, lastMsg, putsSinceGet>>
    /\ overlays' = Overlaid(rects')
    /\ texture' = <<[frame |-> f, w |-> Shape(f)[2], h |-> Shape(f)[1]]>>
    /\ ShowFrame(f)

\* MainWindow.onFrameArrived, the slot of signalFrame, for frame f.
onFrameArrived(f) ==
    /\ IF Empty(rtcToCamQueue)
       THEN /\ rects' = <<>> /\ caught' = "Empty"
            /\ UNCHANGED <<rtcToCamQueue, lastMsg, putsSinceGet>>
       ELSE /\ rects' = ProcessPayload(Head(rtcToCamQueue)).rects
            /\ caught' = ProcessPayload(Head(rtcToCamQueue)).caught
            /\ rtcToCamQueue' = Tail(rtcToCamQueue)
            /\ lastMsg' = NoMsg /\ putsSinceGet' = 0
    /\ overlays' = Overlaid(rects')
    /\ texture' = <<[frame |-> f, w |-> Shape(f)[2], h |-> Shape(f)[1]]>>
    /\ ShowFrame(f)

\* The slot and the data-channel callback, both run by the main thread.
OnMain(A) ==
    A /\ UNCHANGED <<rtcVars, uiVars, obsVars, callVars, chanVars, trkVars,
                     camVars>>

\* The messages of the runs that follow the queues rather than the overlay.
ChanMsgs ==
    {m \in Payloads : m.enc = "str" /\ m.form \in {"blank", "badjson", "nodets"}}

\* The overlay of one frame as a function of what the queue holds: the
\* queue is empty, or holds the one message on_message put there.
InitOverlaySpec ==
    /\ InitRTC /\ InitUI /\ InitChan
    /\ InitTrack /\ InitRender
    /\ camOpened = TRUE /\ InitCamOpened
    /\ rects = <<>> /\ caught = "none" /\ texture = <<>>
    /\ overlays = 0
    /\ \/ rtcToCamQueue = <<>> /\ lastMsg = NoMsg /\ putsSinceGet = 0
       \/ \E msg \in Payloads :
             /\ rtcToCamQueue = put_latest(<<>>, msg)
             /\ lastMsg = msg /\ putsSinceGet = 1

NextOverlay ==
    \E f \in Frames : OnMain(onFrameArrived(f))

SpecOverlay == InitOverlaySpec /\ [][NextOverlay]_vars

\* ------------------------------------- the two queues and their users
\* The main thread runs the slot of signalFrame for the next frame the
\* capture thread emitted (queued connection: in order, once each).
SignalFrame ==
    /\ signalled < nextFrame - 1
    /\ onFrameArrived(signalled + 1)
    /\ signalled' = signalled + 1
    /\ UNCHANGED <<camToRtcQueue, prodPc, prodItem, nextFrame, handed,
                   putResult, putIters, cbReturn, cbCalls>>
    /\ UNCHANGED <<rtcVars, uiVars, obsVars, callVars, trkVars, camVars>>

\* The capture thread and the frame accessor on the outbound queue.
InitChanSpec ==
    /\ InitRTC /\ InitUI /\ InitChan /\ InitOvl
    /\ InitTrack /\ InitRender
    /\ camOpened = TRUE /\ InitCamOpened

\* A step A of the capture thread or of the frame accessor.
OnQueue(A) ==
    A /\ UNCHANGED <<rtcVars, uiVars, obsVars, callVars, ovlVars, trkVars, rndVars, camVars>>

NextChan ==
    \/ OnQueue(CaptureFrame)
    \/ OnQueue(PutNowait)
    \/ OnQueue(DrainOld)
    \/ OnQueue(readCameraCallBack)
    \/ SignalFrame
    \/ \E msg \in ChanMsgs : OnMain(on_message(msg))

SpecChan == InitChanSpec /\ [][NextChan]_vars

\* --------------------------------------------------- the video track
\* CameraTrack(readCameraFunc, fps=25): frame_interval is 1.0 / 25, and
\* int(frame_interval * 1000 / 5), the length of the range of line 57, is 8.
FPS == 25
PollBudget == (1000 \div FPS) \div 5

\* np.zeros((480, 640, 3)): rows, columns, channels of the substitute frame.
BlankShape == <<480, 640, 3>>
Blank == [kind |-> "blank", frame |-> None, shape |-> BlankShape]
CameraFrame(f) == [kind |-> "camera", frame |-> f, shape |-> Shape(f)]

\* recv, line 54: next_timestamp() has returned and the for loop begins; an
\* empty range goes to the else clause at once.
RecvStart ==
    /\ recvPc \in {"idle", "done"}
    /\ polls' = 0
    /\ IF PollBudget > 0
       THEN recvPc' = "poll" /\ recvFrame' = NoFrame
       ELSE recvPc' = "done" /\ recvFrame' = Blank
    /\ UNCHANGED chanVars

\* The sleep of line 61 that never lets the range run out.
RecvWake_forever ==
    /\ recvPc = "sleep"
    /\ recvPc' = "poll"
    /\ UNCHANGED <<polls, recvFrame>>
    /\ UNCHANGED chanVars

\* recv, lines 58-61: read_func() is called; a frame ends the loop and is
\* made the VideoFrame that recv returns, None sends the task to sleep.
RecvPoll ==
    /\ recvPc = "poll"
    /\ readCameraCallBack
    /\ polls' = polls + 1
    /\ IF cbReturn' # None
       THEN recvPc' = "done" /\ recvFrame' = CameraFrame(cbReturn')
       ELSE recvPc' = "sleep" /\ UNCHANGED recvFrame

\* recv, lines 61-64: the sleep of 5 ms is over; the loop goes round, or the
\* range is used up and the else clause substitutes the blank frame.
RecvWake ==
    /\ recvPc = "sleep"
    /\ IF polls < PollBudget
       THEN recvPc' = "poll" /\ UNCHANGED recvFrame
       ELSE recvPc' = "done" /\ recvFrame' = Blank
    /\ UNCHANGED polls
    /\ UNCHANGED chanVars

\* A step A of recv on the event loop.
OnTrack(A) ==
    A /\ UNCHANGED <<rtcVars, uiVars, obsVars, callVars, ovlVars, rndVars,
                     camVars>>

\* The track of a running session: the camera is opened and its capture
\* thread fills camToRtcQueue, or the camera was closed after the session
\* began and nothing fills it.
InitTrackSpec ==
    /\ InitRTC /\ InitUI /\ InitChan /\ InitOvl
    /\ InitTrack /\ InitRender
    /\ camOpened \in BOOLEAN
    /\ IF camOpened THEN InitCamOpened ELSE InitCamClosed

NextTrack ==
    \/ camOpened /\ OnQueue(CaptureFrame)
    \/ OnQueue(PutNowait)
    \/ OnQueue(DrainOld)
    \/ OnTrack(RecvStart)
    \/ OnTrack(RecvPoll)
    \/ OnTrack(RecvWake)

SpecTrack == InitTrackSpec /\ [][NextTrack]_vars

\* ------------------------------------- the camera and the capture threads
\* hState and releases after "if self.cam is not None: self.cam.release()".
Released(hs) == IF cam # None THEN [hs EXCEPT ![cam] = "released"] ELSE hs
Counted(rs) == IF cam # None THEN [rs EXCEPT ![cam] = @ + 1] ELSE rs

\* Camera.close.
Camera_close ==
    /\ hState' = Released(hState)
    /\ releases' = Counted(releases)
    /\ cam' = None
    /\ camOpened' = FALSE
    /\ UNCHANGED nHandles

\* Camera.open that does not close the device it holds.
Camera_open_noClose(ok) ==
    /\ nHandles' = nHandles + 1
    /\ IF ok
       THEN /\ hState' = [hState EXCEPT ![nHandles + 1] = "open"]
            /\ releases' = releases
            /\ cam' = nHandles + 1
            /\ camOpened' = TRUE
       ELSE /\ hState' = [hState EXCEPT ![nHandles + 1] = "failed"]
            /\ releases' = [releases EXCEPT ![nHandles + 1] = @ + 1]
            /\ cam' = None
            /\ camOpened' = FALSE

\* Camera.open: self.close(), then a new VideoCapture; when it is not opened
\* (ok = FALSE) release() is called on it, self.cam is None and the result is
\* False.
Camera_open(ok) ==
    /\ nHandles' = nHandles + 1
    /\ IF ok
       THEN /\ hState' = [Released(hState) EXCEPT ![nHandles + 1] = "open"]
            /\ releases' = Counted(releases)
            /\ cam' = nHandles + 1
            /\ camOpened' = TRUE
       ELSE /\ hState' = [Released(hState) EXCEPT ![nHandles + 1] = "failed"]
            /\ releases' = [Counted(releases) EXCEPT ![nHandles + 1] = @ + 1]
            /\ cam' = None
            /\ camOpened' = FALSE

\* cameraListCurrentChanged, lines 187-193: the flag is set and a new thread
\* is started.
StartThread ==
    /\ readFrameThreadIsRunning' = TRUE
    /\ nThreads' = nThreads + 1
    /\ thr' = [thr EXCEPT ![nThreads + 1] = "check"]
    /\ readFrameThread' = nThreads + 1
    /\ UNCHANGED readFailed

\* What the handler does once the capture thread is dealt with: the "close"
\* item closes the camera (lines 174-177), a device item opens it and starts
\* a thread when that succeeds (lines 184-193), closeEvent closes the camera
\* (line 67) and the window is gone.
Finish(choice, ok) ==
    /\ CASE choice = "close" -> Camera_close /\ clear /\ UNCHANGED thrVars
         [] choice = "open" ->
              /\ Camera_open(ok)
              /\ IF ok THEN StartThread ELSE UNCHANGED thrVars
              /\ UNCHANGED rndVars
         [] choice = "quit" ->
              Camera_close /\ UNCHANGED thrVars /\ UNCHANGED rndVars
    /\ mainPc' = IF choice = "quit" THEN "closed" ELSE "idle"
    /\ pending' = "none"

\* stopReadFrameThreadFunction up to the join: the flag is cleared; with a
\* thread object the main thread blocks in join(timeout=1.0), without one
\* the function returns.
StopBegin(choice) ==
    /\ readFrameThreadIsRunning' = FALSE
    /\ stopCalls' = IF stopCalls < 2 THEN stopCalls + 1 ELSE 2
    /\ mainPc' = IF readFrameThread # None THEN "join" ELSE "afterStop"
    /\ pending' = choice
    /\ UNCHANGED <<readFrameThread, thr, readFailed, nThreads>>
    /\ UNCHANGED <<devVars, camOpened, joinTimedOut>>
    /\ UNCHANGED rndVars

\* stopReadFrameThreadFunction that keeps the Thread object after the join.
JoinReturns_keepsThread ==
    /\ mainPc = "join"
    /\ thr[readFrameThread] \in {"dead", "read"}
    /\ joinTimedOut' = (joinTimedOut \/ thr[readFrameThread] = "read")
    /\ mainPc' = "afterStop"
    /\ UNCHANGED <<readFrameThread, readFrameThreadIsRunning, thr, readFailed, nThreads>>
    /\ UNCHANGED <<devVars, camOpened, pending, nSelects, stopCalls>>
    /\ UNCHANGED <<rtcSenderIsRunning, mStatusText, btnText>>
    /\ UNCHANGED <<rtcVars, obsVars, callVars, chanVars, ovlVars, trkVars, rndVars>>

\* stopReadFrameThreadFunction, lines 321-322: join returns because the
\* thread has ended, or after one second while the thread is still inside
\* camera.read(); the Thread object is forgotten in both cases.
JoinReturns ==
    /\ mainPc = "join"
    /\ thr[readFrameThread] \in {"dead", "read"}
    /\ joinTimedOut' = (joinTimedOut \/ thr[readFrameThread] = "read")
    /\ readFrameThread' = None
    /\ mainPc' = "afterStop"
    /\ UNCHANGED <<readFrameThreadIsRunning, thr, readFailed, nThreads>>
    /\ UNCHANGED <<devVars, camOpened, pending, nSelects, stopCalls>>
    /\ UNCHANGED <<rtcSenderIsRunning, mStatusText, btnText>>
    /\ UNCHANGED <<rtcVars, obsVars, callVars, chanVars, ovlVars, trkVars, rndVars>>

\* The handler goes on after stopReadFrameThreadFunction has returned.
AfterStop ==
    /\ mainPc = "afterStop"
    /\ \E ok \in BOOLEAN : Finish(pending, ok)
    /\ UNCHANGED <<nSelects, stopCalls, joinTimedOut>>
    /\ UNCHANGED <<rtcSenderIsRunning, mStatusText, btnText>>
    /\ UNCHANGED <<rtcVars, obsVars, callVars, chanVars, ovlVars, trkVars>>

\* MainWindow.cameraListCurrentChanged for the "close" item or a device item.
cameraListCurrentChanged(choice) ==
    /\ mainPc = "idle"
    /\ nSelects < MaxSelects
    /\ nSelects' = nSelects + 1
    /\ IF readFrameThreadIsRunning
       THEN StopBegin(choice)
       ELSE /\ \E ok \in BOOLEAN : Finish(choice, ok)
            /\ UNCHANGED <<stopCalls, joinTimedOut>>
    /\ UNCHANGED <<rtcSenderIsRunning, mStatusText, btnText>>
    /\ UNCHANGED <<rtcVars, obsVars, callVars, chanVars, ovlVars, trkVars>>

\* MainWindow.closeEvent: stopReadFrameThreadFunction, whatever the flag.
closeEvent ==
    /\ mainPc = "idle"
    /\ StopBegin("quit")
    /\ UNCHANGED nSelects
    /\ UNCHANGED <<rtcSenderIsRunning, mStatusText, btnText>>
    /\ UNCHANGED <<rtcVars, obsVars, callVars, chanVars, ovlVars, trkVars>>

\* readFrameThreadFunction, line 198 and the entry of camera.read(): the
\* loop ends when the flag is cleared; Camera.read raises RuntimeError when
\* the camera is not opened, and nothing in the thread catches it.
ThreadCheck(i) ==
    /\ thr[i] = "check"
    /\ IF ~readFrameThreadIsRunning
       THEN thr' = [thr EXCEPT ![i] = "dead"] /\ UNCHANGED readFailed
       ELSE IF cam = None
       THEN /\ thr' = [thr EXCEPT ![i] = "dead"]
            /\ readFailed' = [readFailed EXCEPT ![i] = TRUE]
       ELSE thr' = [thr EXCEPT ![i] = "read"] /\ UNCHANGED readFailed
    /\ UNCHANGED <<readFrameThreadIsRunning, readFrameThread, nThreads>>
    /\ UNCHANGED <<devVars, mainVars, uiVars>>
    /\ UNCHANGED <<rtcVars, obsVars, callVars, chanVars, ovlVars, trkVars, rndVars>>

\* readFrameThreadFunction, lines 199-207: self.cam.read() returns.  With a
\* frame (got = TRUE) the frame is emitted and put into camToRtcQueue (the
\* steps of put_latest are followed in SpecChan); without one Camera.read
\* raises RuntimeError and the thread ends.  A device released by the main
\* thread during the read can give either result.
ThreadRead(i, got) ==
    /\ thr[i] = "read"
    /\ IF got
       THEN /\ nextFrame <= MaxFrames
            /\ camToRtcQueue' = put_latest(camToRtcQueue, nextFrame)
            /\ nextFrame' = nextFrame + 1
            /\ thr' = [thr EXCEPT ![i] = "check"]
            /\ UNCHANGED readFailed
       ELSE /\ thr' = [thr EXCEPT ![i] = "dead"]
            /\ readFailed' = [readFailed EXCEPT ![i] = TRUE]
            /\ UNCHANGED <<camToRtcQueue, nextFrame>>
    /\ UNCHANGED <<prodPc, prodItem, handed, putResult, putIters, cbReturn,
                   cbCalls, signalled>>
    /\ UNCHANGED <<readFrameThreadIsRunning, readFrameThread, nThreads>>
    /\ UNCHANGED <<devVars, mainVars, uiVars>>
    /\ UNCHANGED <<rtcVars, obsVars, callVars, ovlVars, trkVars, rndVars>>

\* The window from its construction: the camera list, the window's close
\* button and the capture threads.
InitCamSpec ==
    /\ InitRTC /\ InitUI /\ InitChan /\ InitOvl
    /\ InitTrack /\ InitRender
    /\ camOpened = FALSE /\ InitCamClosed

NextCam ==
    \/ \E choice \in {"close", "open"} : cameraListCurrentChanged(choice)
    \/ closeEvent
    \/ JoinReturns
    \/ AfterStop
    \/ \E i \in Threads : ThreadCheck(i)
    \/ \E i \in Threads, got \in BOOLEAN : ThreadRead(i, got)

SpecCam == InitCamSpec /\ [][NextCam]_vars

\* Every thread that can run does, and a join that can return does.
FairSpecCam ==
    /\ SpecCam
    /\ WF_vars(JoinReturns)
    /\ \A i \in Threads : WF_vars(ThreadCheck(i))
    /\ \A i \in Threads : WF_vars(\E got \in BOOLEAN : ThreadRead(i, got))

\* ---------------------------------------------------------------- claims
Failures == {"timeout", "empty", "malformed", "rejected", "peerFailed"}

\* C1: an open() made while an earlier _run task has not finished is refused
\* and starts no second session: no such open() ever creates a task, and at
\* most one session task is unfinished at any time.
C1_OpenWhileActiveRefused ==
    /\ ~openWhileActive
    /\ Cardinality({t \in Sessions : Active(t)}) <= 1

\* C2: a session whose task had not run its first step when close() was
\* called is cancelled: it never creates a peer connection, never publishes
\* an offer and never reaches the monitoring loop.
C2_CloseBeforeStartCancels ==
    \A t \in Sessions :
        "scheduled" \in closedAt[t] =>
            /\ pcState[t] = "none"
            /\ published[t] = 0
            /\ ~monitored[t]

\* C3: after a close() made while session t waits for the answer, the task
\* leaves the wait neither by a message nor by the 25-second timeout, and no
\* answer is applied as remote description.
C3_CloseCancelsAnswerWait ==
    \A t \in Sessions :
        "wait" \in closedAt[t] =>
            /\ answerStr[t] = "none"
            /\ endReason[t] # "timeout"
            /\ ~applied[t]

\* C4: pc.close() is invoked at most once on every peer connection object.
C4_CloseInvokedAtMostOnce ==
    \A k \in Sessions : closeCalls[k] <= 1

\* C5: after close() the sender has pc = None and _running = False, and a
\* close() that directly follows a close() schedules no teardown.
C5_CloseTwice ==
    /\ closeStreak >= 1 => (pc = None /\ ~running)
    /\ closeStreak = 2 => schedByLast = 0

\* C5 witness: two close() calls in a row on a sender with a live session;
\* the teardown the first one scheduled is the only one.
C5_Witness ==
    /\ closeStreak = 2
    /\ \E k \in Sessions : closeTasks[k] = 1 /\ closeCalls[k] = 1 /\ Active(k)

\* C6: when a session times out waiting for the answer and close() is never
\* called, the task ends, and it ends with its peer connection closed exactly
\* once, pc = None, _running = False and one offer published in all.
C6_TimeoutReleasesOnce ==
    /\ [](\A t \in Sessions :
            (task[t] = "done" /\ endReason[t] = "timeout" /\ ~closedEver)
              => /\ closeCalls[t] = 1
                 /\ pcState[t] = "closed"
                 /\ pc = None
                 /\ ~running
                 /\ offers = 1)
    /\ (\E t \in Sessions : endReason[t] = "timeout" /\ ~closedEver)
         ~> (\/ closedEver
             \/ \A t \in Sessions : endReason[t] = "timeout" => task[t] = "done")

\* C6 witness: a session that timed out and ended, with no close() call.
C6_Witness ==
    \E t \in Sessions :
        task[t] = "done" /\ endReason[t] = "timeout" /\ ~closedEver

\* C7: once the latest session has ended by a failure, and the button was
\* not clicked since it was opened, the window shows Failed and its running
\* flag is cleared.
C7_FailureReported ==
    \A t \in Sessions :
        (t = nTasks /\ lastClick = "open" /\ task[t] = "done"
           /\ endReason[t] \in Failures)
          => (mStatusText = STATUS_FAILED /\ ~rtcSenderIsRunning)

\* C8: a session that ended on an answer that is empty, malformed or
\* rejected never entered the monitoring loop, and pc.close() was invoked on
\* its peer connection.
C8_BadAnswerReleases ==
    \A t \in Sessions :
        (task[t] = "done" /\ endReason[t] \in {"empty", "malformed", "rejected"})
          => (~monitored[t] /\ closeCalls[t] >= 1)

\* C9: a session that left the monitoring loop because its peer connection
\* reported "failed" or "closed", or because close() cleared the flag while
\* it was monitoring, ends with pc.close() invoked on its peer connection,
\* pc = None and _running = False.
C9_MonitoredSessionEndsClean ==
    [][\A t \in Sessions :
         (/\ monitored[t] /\ task[t] # "done" /\ task'[t] = "done"
          /\ \/ endReason'[t] \in {"peerFailed", "pcClosed"}
             \/ endReason'[t] = "stopped" /\ "monitor" \in closedAt[t])
           => (closeCalls'[t] >= 1 /\ pc' = None /\ ~running')]_vars

\* C10: when put_latest returns, the frame is held in the queue or was
\* handed to the consumer.
C10_PutNeverLoses ==
    \A f \in Frames : putResult[f] # "lost"

\* C11: after one or more messages were forwarded by on_message with no
\* get in between, rtcToCamQueue holds exactly the last of them, and the
\* next onFrameArrived takes it, overlays what that message describes and
\* leaves the queue empty.  Likewise camToRtcQueue holds exactly the last
\* frame put as long as the frame accessor has taken none.
C11_LastPutIsHeld ==
    /\ [](putsSinceGet >= 1 => rtcToCamQueue = <<lastMsg>>)
    /\ []((handed = {} /\ prodPc = "idle" /\ nextFrame > 1)
            => camToRtcQueue = <<nextFrame - 1>>)
    /\ [][(signalled' # signalled /\ putsSinceGet >= 1)
            => /\ rtcToCamQueue' = <<>>
               /\ rects' = ProcessPayload(lastMsg).rects
               /\ caught' = ProcessPayload(lastMsg).caught]_vars

\* C11 witness: two or more messages were forwarded since the last get, a
\* frame was shown before, and the queue holds the last message.
C11_Witness ==
    /\ putsSinceGet = 2 /\ signalled >= 1
    /\ rtcToCamQueue = <<lastMsg>>

\* C12: a put_latest call of the capture thread makes at most two
\* put_nowait attempts, and while it has not returned its next step can be
\* taken, whatever the frame accessor does in between.
C12_PutReturnsInTwoRounds ==
    /\ putIters <= 2
    /\ prodPc = "put" => ENABLED PutNowait
    /\ prodPc = "drain" => ENABLED DrainOld

\* C12 witness: a call that found the queue full, made its second attempt
\* and returned.
C12_Witness ==
    putIters = 2 /\ prodPc = "idle"

\* C13: readCameraCallBack called on an empty camToRtcQueue returns None,
\* and onFrameArrived run on an empty rtcToCamQueue draws no rectangle and
\* shows the frame; both leave their queue empty.
C13_EmptyGetReportsEmpty ==
    [][/\ (cbCalls' # cbCalls /\ Empty(camToRtcQueue))
           => (cbReturn' = None /\ Empty(camToRtcQueue'))
       /\ (signalled' # signalled /\ Empty(rtcToCamQueue))
           => /\ rects' = <<>> /\ caught' = "Empty"
              /\ Empty(rtcToCamQueue')
              /\ Len(texture') = 1]_vars

\* C13 witness: the accessor returned None after it had returned a frame,
\* and the last frame was shown with the inbound queue empty.
C13_Witness ==
    /\ cbReturn = None /\ handed # {}
    /\ caught = "Empty" /\ signalled >= 1

\* The capture threads that have started and not ended.
Alive == {i \in Threads : thr[i] \in {"check", "read"}}

\* C14: at most one capture thread is alive at any time; a thread started
\* for a newly opened device never runs beside the thread of the device
\* before.
C14_OneCaptureThread ==
    Cardinality(Alive) <= 1

\* C15: the step in which camera.read() fails in a capture thread leaves
\* that thread in its loop, about to try again.
C15_FailedReadRetried ==
    [][\A i \in Threads :
         (~readFailed[i] /\ readFailed'[i]) => thr'[i] = "check"]_vars

\* C16: release() is called at most once on every VideoCapture object, at
\* most one object is open at a time and it is the one the Camera holds,
\* every object that was opened and is no longer held was released exactly
\* once, and after the window is closed no object is open.
C16_HandleReleasedOnce ==
    /\ \A h \in Handles : releases[h] <= 1
    /\ Cardinality({h \in Handles : hState[h] = "open"}) <= 1
    /\ \A h \in Handles : hState[h] = "open" => cam = h
    /\ \A h \in Handles : hState[h] = "released" => releases[h] = 1
    /\ mainPc = "closed" => \A h \in Handles : hState[h] # "open"

\* C16 witness: the window is closed after two devices were opened in turn
\* and a third one failed to open.
C16_Witness ==
    /\ mainPc = "closed"
    /\ Cardinality({h \in Handles : hState[h] = "released"}) >= 2
    /\ \E h \in Handles : hState[h] = "failed"

\* C17: whenever stopReadFrameThreadFunction has returned the flag is
\* cleared and the Thread object is None; a call made with no Thread object
\* changes neither; and a call that waits in join returns.
C17_StopIdempotentReturns ==
    /\ [](mainPc = "afterStop"
            => (~readFrameThreadIsRunning /\ readFrameThread = None))
    /\ [][(mainPc = "idle" /\ mainPc' = "afterStop")
            => UNCHANGED <<readFrameThreadIsRunning, readFrameThread, thr>>]_vars
    /\ (mainPc = "join") ~> (mainPc = "afterStop")

\* C17 witness: the second call in a row has returned, and the join of the
\* first one had timed out with the thread inside camera.read().
C17_Witness ==
    /\ mainPc = "afterStop" /\ pending = "quit"
    /\ stopCalls = 2 /\ joinTimedOut
    /\ nThreads = 1

\* A step of recv, and how far recv is from returning: the polls it may
\* still make, counted twice, plus one while it sleeps.
RecvStep == OnTrack(RecvPoll) \/ OnTrack(RecvWake)
RecvDistance ==
    IF recvPc = "poll" THEN 2 * (PollBudget - polls)
    ELSE IF recvPc = "sleep" THEN 2 * (PollBudget - polls) + 1
    ELSE 0

\* C21: recv never stalls.  It calls the frame accessor at most PollBudget
\* (8) times in one tick; while it has not returned it can always take a
\* step, and every step brings it nearer to its return; it returns the
\* frame of the poll that yielded one, and otherwise, after PollBudget polls
\* that all gave None, the blank frame of 480 rows, 640 columns and 3
\* channels.
C21_RecvReturnsWithinBudget ==
    /\ [](PollBudget = 8 /\ polls <= PollBudget)
    /\ [](recvPc \in {"poll", "sleep"} => ENABLED RecvStep)
    /\ [][(recvPc \in {"poll", "sleep"} /\ recvPc' # recvPc)
            => RecvDistance' < RecvDistance]_vars
    /\ [](recvPc = "done" =>
            \/ /\ recvFrame.kind = "camera"
               /\ recvFrame.frame = cbReturn /\ cbReturn \in handed
            \/ /\ recvFrame = Blank /\ polls = PollBudget /\ cbReturn = None
               /\ recvFrame.shape = <<480, 640, 3>>)

\* C21 witness: recv has returned the blank frame although the camera is
\* opened and frames went through the queue before.
C21_Witness ==
    /\ recvPc = "done" /\ recvFrame = Blank /\ polls = PollBudget
    /\ camOpened /\ handed # {}

\* The step in which onFrameArrived takes a "detections" list from the queue.
TakesBatch ==
    /\ rtcToCamQueue # <<>> /\ rtcToCamQueue' = <<>>
    /\ Head(rtcToCamQueue).form = "batch"

\* An entry with a bbox of four numbers; a well-formed entry: such a bbox, a
\* class name that is a string or missing, a confidence that is a number or
\* missing.
BoxOk(det) ==
    /\ det.obj /\ det.bbox.list /\ Len(det.bbox.items) = 4
    /\ \A k \in 1..4 : Numeric(det.bbox.items[k])
WellFormed(det) ==
    BoxOk(det) /\ det.cls.kind # "other" /\ det.conf # "str"

\* C18: when onFrameArrived takes a "detections" list, every well-formed
\* entry of the list gets its bounding rectangle, whatever the other
\* entries of the list are.
C18_BadEntrySkippedAlone ==
    [][TakesBatch =>
         \A i \in 1..Len(Head(rtcToCamQueue).dets) :
             WellFormed(Head(rtcToCamQueue).dets[i])
               => \E k \in 1..Len(rects') : rects'[k].i = i]_vars

\* C19: every run of onFrameArrived, whatever the queue holds, calls
\* setTextureData exactly once, with the frame and its own width (columns)
\* and height (rows), and no exception leaves the slot.
C19_FrameAlwaysShown ==
    [][/\ caught' # "escaped"
       /\ \E f \in Frames :
             texture' = <<[frame |-> f, w |-> Shape(f)[2], h |-> Shape(f)[1]]>>]_vars

\* C19 witness: a frame was shown although the payload made the loop over
\* the detections fail after a rectangle was drawn.
C19_Witness ==
    /\ caught = "Exception" /\ rects # <<>>
    /\ Len(texture) = 1 /\ rtcToCamQueue = <<>>

\* C20: when onFrameArrived takes a "detections" list, every entry with a
\* bbox of four numbers gets exactly one bounding rectangle, red if its
\* lower-cased class name contains "cavity" and green otherwise (a missing
\* class name is green).
C20_OneRectPerBoxByClass ==
    [][TakesBatch =>
         \A i \in 1..Len(Head(rtcToCamQueue).dets) :
             LET det == Head(rtcToCamQueue).dets[i]
                 mine == {k \in 1..Len(rects') : rects'[k].i = i}
             IN  BoxOk(det) =>
                   /\ Cardinality(mine) = 1
                   /\ \A k \in mine :
                         rects'[k].color =
                           IF det.cls.kind = "str"
                              /\ Contains(CAVITY, Lower(det.cls.chars))
                           THEN RED ELSE GREEN]_vars

\* The texture objects that exist, and the places of the destroy() and of
\* the constructor calls in the log of a call.
Live == {i \in TexIds : texState[i] = "live"}
DestroyedAt(log, i) == {k \in 1..Len(log) : log[k] = <<"destroy", i>>}
CreatedAt(log) == {k \in 1..Len(log) : log[k][1] = "create"}

\* C22: in every setTextureData call that gets past the size check, each
\* texture held before the call is destroyed, and destroyed before the first
\* texture of the new upload is created; no texture object is destroyed
\* twice; and the objects that exist are at all times the ones the three
\* fields name, three for YUV420P and one for RGB24 / BGR24.
C22_OldTexturesDestroyedFirst ==
    /\ [][(lastCall' = "setTextureData" /\ glLog' # <<>>) =>
            \A i \in Held :
               /\ DestroyedAt(glLog', i) # {}
               /\ \A k \in DestroyedAt(glLog', i), j \in CreatedAt(glLog') : k < j]_vars
    /\ [](\A i \in TexIds : destroys[i] <= 1)
    /\ [](Live = Held)
    /\ [](m_textureY # None =>
            Cardinality(Held) = IF m_currentFormat = YUV420P THEN 3 ELSE 1)

\* C22 witness: a call has replaced the three textures of a YUV420P frame
\* by the one texture of a packed frame.
C22_Witness ==
    /\ lastCall = "setTextureData"
    /\ m_currentFormat \in {RGB24, BGR24}
    /\ Len(glLog) = 4 /\ Cardinality(CreatedAt(glLog)) = 1
    /\ Live = {m_textureY} /\ m_textureU = None /\ m_textureV = None

\* C23: after clear() the three texture fields are None and no texture
\* object exists, the width and the height are 0, the format is None and
\* both scale factors are 1; every texture held before was destroyed by the
\* call; and a paintGL that comes next only clears the colour buffer.
C23_ClearEmptiesTheView ==
    /\ [](lastCall = "clear" =>
            /\ m_textureY = None /\ m_textureU = None /\ m_textureV = None
            /\ Live = {}
            /\ m_width = 0 /\ m_height = 0
            /\ m_currentFormat = NoFormat
            /\ m_scaleX = One /\ m_scaleY = One)
    /\ [][lastCall' = "clear" =>
            \A i \in Held : texState'[i] = "destroyed" \/ texState[i] = "destroyed"]_vars
    /\ [][(lastCall = "clear" /\ lastCall' = "paintGL") => painted' = Black]_vars

\* C23 witness: the view was painted black after a clear() that destroyed
\* the three textures of a YUV420P frame.
C23_Witness ==
    /\ lastCall = "paintGL" /\ painted = Black /\ m_shaderProgram
    /\ m_width = 0 /\ m_currentFormat = NoFormat
    /\ Cardinality({i \in TexIds : texState[i] = "destroyed"}) = 3

\* C24: with a source of positive size, the scale factors are those of the
\* widget's and the source's aspect ratios: when the widget is relatively
\* wider, scaleX = videoAspect / windowAspect and scaleY = 1, otherwise
\* scaleX = 1 and scaleY = windowAspect / videoAspect.  A widget twice as
\* wide gives (1/2, 1), one twice as tall (1, 1/2); one factor is always 1
\* and both are greater than 0 and at most 1.
C24_ScaleFollowsAspect ==
    (m_width > 0 /\ m_height > 0) =>
        LET wider == winW * m_height > m_width * winH
        IN  /\ wider => /\ m_scaleY = One
                        /\ m_scaleX[1] * (m_height * winW) = m_scaleX[2] * (m_width * winH)
            /\ ~wider => /\ m_scaleX = One
                         /\ m_scaleY[1] * (winH * m_width) = m_scaleY[2] * (winW * m_height)
            /\ winW * m_height = 2 * m_width * winH
                  => (m_scaleX = <<1, 2>> /\ m_scaleY = One)
            /\ 2 * winW * m_height = m_width * winH
                  => (m_scaleX = One /\ m_scaleY = <<1, 2>>)
            /\ m_scaleX = One \/ m_scaleY = One
            /\ 0 < m_scaleX[1] /\ m_scaleX[1] <= m_scaleX[2]
            /\ 0 < m_scaleY[1] /\ m_scaleY[1] <= m_scaleY[2]

\* C24 witness: the widget is twice as wide as the source's aspect ratio.
C24_Witness ==
    /\ m_width > 0 /\ m_height > 0
    /\ winW * m_height = 2 * m_width * winH
    /\ m_scaleX = <<1, 2>> /\ m_scaleY = One

\* C25: the finally block of session t touches nothing of another session:
\* when self.pc names the peer connection of another session it calls
\* close() on no object, it leaves self.pc as it is, and it leaves _running
\* set while another session has started and not ended.
C25_FinallyTouchesOwnOnly ==
    [][\A t \in Sessions :
         /\ (task[t] \notin {"none", "closing", "done"}
               /\ task'[t] \in {"closing", "done"} /\ pc # None /\ pc # t)
              => (closeCalls' = closeCalls /\ task'[t] = "done")
         /\ (task[t] \notin {"none", "closing", "done"}
               /\ task'[t] \in {"closing", "done"}
               /\ \E u \in Sessions \ {t} :
                     task[u] \notin {"none", "scheduled", "closing", "done"})
              => running' = running
         /\ (task[t] = "closing" /\ task'[t] = "done" /\ pc \notin {None, t})
              => pc' = pc]_vars

\* C26: a message the peer publishes on the answer topic reaches every
\* session that has published its offer and has neither received an answer
\* nor run into its timeout.
C26_NoAnswerMissed ==
    [][answersSent' = answersSent + 1 =>
         \A t \in Sessions :
            (published[t] > 0 /\ task[t] \in {"subscribe", "wait"}
               /\ inbox[t] = "none")
              => inbox'[t] # "none"]_vars

\* C27: whenever the Y texture is present, the format is one of YUV420P,
\* RGB24, BGR24, for YUV420P the U and V textures are present too and for
\* RGB24 / BGR24 both are None; and paintGL has bound no missing texture.
C27_TexturesMatchFormat ==
    /\ m_textureY # None =>
          /\ m_currentFormat \in {YUV420P, RGB24, BGR24}
          /\ m_currentFormat = YUV420P
                => (m_textureU # None /\ m_textureV # None)
          /\ m_currentFormat \in {RGB24, BGR24}
                => (m_textureU = None /\ m_textureV = None)
    /\ ~painted.error /\ raised # "AttributeError"

\* C27 witness: a YUV420P frame was painted from its three textures.
C27_Witness ==
    /\ lastCall = "paintGL" /\ painted.drawn /\ painted.isYUV
    /\ m_textureU # None /\ m_textureV # None

\* C28: a setTextureData call that ends with ValueError leaves the three
\* textures, the width, the height and the format as they were.
C28_RejectedUploadKeepsState ==
    [][(lastCall' = "setTextureData" /\ raised' = "ValueError") =>
         UNCHANGED <<m_textureY, m_textureU, m_textureV, m_width, m_height,
                     m_currentFormat, texState>>]_vars

\* C29: onFrameArrived leaves the queue empty, so the payload it read is
\* read by no later frame: since the last message at most one frame was
\* drawn with a rectangle, and a frame that arrives while no message came
\* in since the frame before finds the queue empty and goes to the view
\* with no rectangle.
C29_PayloadOverlaidOnce ==
    /\ [](overlays <= 1)
    /\ [](putsSinceGet = 0 => rtcToCamQueue = <<>>)
    /\ [][(putsSinceGet = 0 /\ texture' # texture) =>
            /\ rects' = <<>> /\ caught' = "Empty"
            /\ Len(texture') = 1 /\ overlays' = overlays]_vars

\* C29 witness: a frame was drawn with a rectangle, and a later frame found
\* the queue empty and was shown without one.
C29_Witness ==
    /\ overlays = 1 /\ caught = "Empty" /\ rects = <<>> /\ Len(texture) = 1
    /\ lastCall = "setTextureData" /\ m_textureY # None

====
